---- MODULE Spec2Model ----
(***************************************************************************)
(* Model of excalidraw-app/data/googleCloud.ts: the save / list / load     *)
(* pipelines against Google Drive, the process-wide accessToken slot, the  *)
(* gapi client initialisation and the remote folder / file store; and of   *)
(* the LoadFromCloud component that drives list and load.                  *)
(* Every await of the source is one suspension point: the code between two *)
(* awaits runs as one atomic action (one browser task and its microtasks). *)
(***************************************************************************)
EXTENDS Integers, Sequences, FiniteSets, TLC

(* ------------------------------ bounds -------------------------------- *)
\* number of save()/list()/load() invocations of one session
MaxOps == 2
\* number of times the millisecond clock advances during the session
MaxTicks == 1
\* clock reading (ms since midnight) at the start of the session
StartClock == 59999
\* number of stored files (the newest ones) a load() is tried on
MaxLoadInputs == 3
\* number of clicks on 'Load from Cloud' and on file entries
MaxClicks == 5

Procs == 1..MaxOps

(* --------------------------- program constants ------------------------ *)
\* pageSize of the listing request
PageSize == 100
\* version tag of the envelope
EnvelopeVersion == 2

NoToken == 0
NoId == 0

(* ------------------------------ strings ------------------------------- *)
\* A string is a sequence of one-character (or literal-chunk) strings.
Digits == <<"0", "1", "2", "3", "4", "5", "6", "7", "8", "9">>

RECURSIVE Pow10(_)
Pow10(k) == IF k = 0 THEN 1 ELSE 10 * Pow10(k - 1)

\* n written with w decimal digits, zero padded
Pad(n, w) == [i \in 1..w |-> Digits[((n \div Pow10(w - i)) % 10) + 1]]

\* Date.prototype.toISOString for a reading within 1970-01-01
toISOString(ms) ==
    <<"1", "9", "7", "0", "-", "0", "1", "-", "0", "1", "T">>
    \o Pad((ms \div 3600000) % 24, 2) \o <<":">>
    \o Pad((ms \div 60000) % 60, 2) \o <<":">>
    \o Pad((ms \div 1000) % 60, 2) \o <<".">>
    \o Pad(ms % 1000, 3) \o <<"Z">>

\* .replace(/[:.]/g, "-")
ReplaceColonDot(s) ==
    [i \in DOMAIN s |-> IF s[i] \in {":", "."} THEN "-" ELSE s[i]]

\* `excalidraw-${timestamp}.excalidraw`
FileNameAt(ms) ==
    <<"excalidraw-">> \o ReplaceColonDot(toISOString(ms)) \o <<".excalidraw">>

(* ----------------------------- documents ------------------------------ *)
\* elements: the drawable elements in order; files: the attachment keys in
\* insertion order
Docs ==
    { [elements |-> <<>>, files |-> <<>>],
      [elements |-> <<"rectangle">>, files |-> <<"image-1">>],
      [elements |-> <<"rectangle", "arrow">>,
       files |-> <<"image-1", "image-2">>] }

\* the data object of saveToGoogleCloud
Envelope(d) ==
    [ type |-> "excalidraw",
      version |-> EnvelopeVersion,
      source |-> "https://excalidraw.com",
      elements |-> d.elements,
      appState |-> [viewBackgroundColor |-> "#ffffff"],
      files |-> d.files ]

\* JSON.stringify(data, null, 2) as a token sequence
Stringify(data) ==
    <<"{", "type", data.type, "version", Digits[data.version + 1],
      "source", data.source, "elements", "[">>
    \o data.elements
    \o <<"]", "appState", "{", "viewBackgroundColor",
         data.appState.viewBackgroundColor, "}", "files", "{">>
    \o data.files
    \o <<"}", "}">>

\* position of the first token equal to t at or after position i
RECURSIVE Find(_, _, _)
Find(s, t, i) ==
    IF i > Len(s) THEN 0 ELSE IF s[i] = t THEN i ELSE Find(s, t, i + 1)

\* response.json(): the structure the token sequence denotes
ParseJsonWithoutAttachments(s) ==
    LET eo == Find(s, "[", 1)
        ec == Find(s, "]", eo)
    IN  [ type |-> s[3],
          version |-> (CHOOSE n \in 0..9 : Digits[n + 1] = s[5]),
          source |-> s[7],
          elements |-> SubSeq(s, eo + 1, ec - 1),
          appState |-> [viewBackgroundColor |-> s[ec + 4]],
          files |-> <<>> ]

ParseJson(s) ==
    LET eo == Find(s, "[", 1)
        ec == Find(s, "]", eo)
        fo == Find(s, "files", ec) + 1
        fc == Find(s, "}", fo)
    IN  [ type |-> s[3],
          version |-> (CHOOSE n \in 0..9 : Digits[n + 1] = s[5]),
          source |-> s[7],
          elements |-> SubSeq(s, eo + 1, ec - 1),
          appState |-> [viewBackgroundColor |-> s[ec + 4]],
          files |-> SubSeq(s, fo + 1, fc - 1) ]

(* ------------------------------ messages ------------------------------ *)
\* A message is a sequence of segments; a template literal `P${m}` prepends P.
Wrap(prefix, m) == <<prefix>> \o m

\* m || d
MsgOr(m, d) == IF m = <<>> THEN <<d>> ELSE m

\* an Error object
Err(m) == [message |-> m]

\* what a rejected remote call (gapi client request, fetch) rejects with:
\* its .message, possibly absent, and its conversion to a string
RemoteErrors ==
    { [message |-> <<>>, text |-> "[object Object]"],
      [message |-> <<"Network Error">>, text |-> "Error: Network Error"] }

\* error.message || error
MsgOrSelf(e) == IF e.message = <<>> THEN <<e.text>> ELSE e.message

\* what gapi.client.init rejects with: details / error / message fields,
\* or a bare string
InitErrors ==
    { [details |-> "API key not valid", error |-> "", errorIsString |-> TRUE,
       message |-> "", str |-> ""],
      [details |-> "", error |-> "idpiframe_initialization_failed",
       errorIsString |-> TRUE, message |-> "", str |-> ""],
      [details |-> "", error |-> "code:403", errorIsString |-> FALSE,
       message |-> "", str |-> ""],
      [details |-> "", error |-> "", errorIsString |-> TRUE,
       message |-> "Network Error", str |-> ""],
      [details |-> "", error |-> "", errorIsString |-> TRUE,
       message |-> "", str |-> "script error"],
      [details |-> "", error |-> "", errorIsString |-> TRUE,
       message |-> "", str |-> ""] }

\* the errorMessage chain of loadGoogleDriveAPI's catch block
InitErrorMessage(e) ==
    IF e.details # "" THEN <<e.details>>
    ELSE IF e.error # ""
         THEN (IF e.errorIsString THEN <<e.error>> ELSE <<"{", e.error, "}">>)
    ELSE IF e.message # "" THEN <<e.message>>
    ELSE IF e.str # "" THEN <<e.str>>
    ELSE <<"Unknown error">>

InitError(e) ==
    Err(Wrap("Google API initialization failed: ", InitErrorMessage(e)))

\* what the token client's callback is called with when authentication fails
AuthErrors ==
    { [error |-> "access_denied", error_description |-> ""],
      [error |-> "access_denied", error_description |-> "User denied access"] }

\* a non-2xx HTTP response: status and statusText
UploadHttpErrors == { <<"401", "Unauthorized">> }
DownloadHttpErrors == { <<"404", "Not Found">> }

(* ------------------------------- state --------------------------------- *)
VARIABLES
    gapiLoaded,     \* window.gapi is present
    gisLoaded,      \* window.google.accounts.oauth2 is present
    driveReady,     \* window.gapi.client.drive is present
    accessToken,    \* the module-level accessToken (NoToken = null)
    clock,          \* the latest reading of the millisecond clock
    scene,          \* the document of the editor: its elements and files
    nextToken,      \* the next token the OAuth provider hands out
    nextId,         \* the next id the Drive service hands out
    folders,        \* remote folders named "excalidraw": [id, trashed]
    files,          \* remote files: [id, name, parent, mtime, trashed, body]
    op,             \* per invocation: "none", "save", "list", "load"
    pc,             \* per invocation: the await it is suspended at
    loc,            \* per invocation: its local variables
    inflight,       \* remote calls sent and not yet answered
    outcome,        \* per invocation: what the caller got
    hist,           \* per invocation: observation of its run (history)
    initLog,        \* observation of the gapi.client.init calls (history)
    lastObtained,   \* the token the latest authentication yielded (history)
    ui              \* the LoadFromCloud component: its state and the calls
                    \* of its props so far

env == <<gapiLoaded, gisLoaded, scene>>
store == <<folders, files, nextId>>
cloud == <<gapiLoaded, gisLoaded, scene, driveReady, accessToken, clock,
           nextToken, nextId, folders, files, op, pc, loc, inflight, outcome,
           hist, initLog, lastObtained>>
vars == <<gapiLoaded, gisLoaded, scene, driveReady, accessToken, clock, nextToken,
          nextId, folders, files, op, pc, loc, inflight, outcome, hist,
          initLog, lastObtained, ui>>

NoLocals ==
    [fileName |-> <<>>, body |-> <<>>, token |-> NoToken, folderId |-> NoId,
     fileId |-> NoId, found |-> {}, uploadId |-> NoId]

Pending ==
    [status |-> "pending", success |-> FALSE, message |-> <<>>,
     fileName |-> <<>>, fileList |-> <<>>, data |-> <<>>]

NoHist ==
    [steps |-> <<>>, failed |-> "none", filesAtCall |-> {}, okAtCall |-> FALSE,
     authAtCall |-> FALSE, created |-> NoId, overwritten |-> FALSE]

\* the component as mounted: the useState initial values, no click yet,
\* onError and onLoadFile not yet called
Mounted ==
    [files |-> <<>>, isLoading |-> FALSE, showFileList |-> FALSE,
     clicks |-> 0, onError |-> 0, lastError |-> <<>>, onLoadFile |-> 0,
     loaded |-> <<>>]

\* the remote stores a session can start from
InitialFolders ==
    { {}, {[id |-> 1, trashed |-> FALSE]}, {[id |-> 1, trashed |-> TRUE]} }

\* the page start: the module's variables and the scripts of the page
PageLoaded ==
    /\ gapiLoaded \in BOOLEAN
    /\ gisLoaded \in BOOLEAN
    /\ driveReady = FALSE
    /\ accessToken = NoToken
    /\ clock = StartClock
    /\ scene \in Docs
    /\ nextToken = 1
    /\ op = [p \in Procs |-> "none"]
    /\ pc = [p \in Procs |-> "idle"]
    /\ loc = [p \in Procs |-> NoLocals]
    /\ inflight = {}
    /\ outcome = [p \in Procs |-> Pending]
    /\ hist = [p \in Procs |-> NoHist]
    /\ initLog = [calls |-> 0, whileReady |-> 0, succeeded |-> 0]
    /\ lastObtained = NoToken
    /\ ui = Mounted

Init ==
    /\ PageLoaded
    /\ nextId = 2
    /\ folders \in InitialFolders
    /\ files = {}

\* a file saved in an earlier session, at clock reading i
OldFile(i, parent, trashed) ==
    [id |-> 1 + i, name |-> FileNameAt(i), parent |-> parent, ctime |-> i,
     mtime |-> i, trashed |-> trashed,
     body |-> Stringify(Envelope([elements |-> <<>>, files |-> <<>>]))]

\* the stores earlier sessions can have left behind: those of Init, one
\* with two live folders of the well-known name, and one whose folder holds
\* more live files than one page of the listing, a trashed file newer than
\* all of them, and beside the folder a file that is not its child
InitialStores ==
    { [folders |-> fs, files |-> {}, nextId |-> 2] : fs \in InitialFolders }
    \cup
    { [folders |-> {[id |-> 1, trashed |-> FALSE], [id |-> 2, trashed |-> FALSE]},
       files |-> {}, nextId |-> 3],
      [folders |-> {[id |-> 1, trashed |-> FALSE]},
       files |-> {OldFile(i, 1, FALSE) : i \in 1..(PageSize + 1)}
                 \cup {OldFile(PageSize + 2, 1, TRUE),
                       OldFile(PageSize + 3, NoId, FALSE)},
       nextId |-> PageSize + 5] }

InitStores ==
    /\ PageLoaded
    /\ \E s \in InitialStores :
         /\ folders = s.folders
         /\ files = s.files
         /\ nextId = s.nextId

(* --------------------------- derived values ---------------------------- *)
LiveFolders == {f \in folders : ~f.trashed}
FileIds == {f.id : f \in files}

\* the file ids a load() is tried on: the newest stored files, and an id
\* no file has
LoadInputs == {NoId} \cup {id \in FileIds : id >= nextId - MaxLoadInputs}

\* some save() or list() has completed successfully
SomeSucceeded ==
    \E q \in Procs : /\ op[q] \in {"save", "list"}
                     /\ pc[q] = "done"
                     /\ outcome[q].success

\* the readings the clock can give next: time does not run backwards
Readings == clock..(StartClock + MaxTicks)

\* invocation slots are taken in order
CanCall(p) == pc[p] = "idle" /\ (IF p = 1 THEN TRUE ELSE pc[p - 1] # "idle")

CallHist ==
    [NoHist EXCEPT !.filesAtCall = FileIds,
                   !.okAtCall = SomeSucceeded,
                   !.authAtCall = (lastObtained # NoToken)]

(* ----------------------- the top-level catch blocks -------------------- *)
\* save() converts a thrown failure into a result value; list() and load()
\* rethrow it with their own prefix
CatchRethrowsInSave(kind, e) ==
    [Pending EXCEPT
        !.status = "thrown",
        !.message = Wrap(CASE kind = "save" -> "Failed to save: "
                           [] kind = "list" -> "Failed to list files: "
                           [] OTHER -> "Failed to load file: ",
                         MsgOr(e.message, "Unknown error"))]

Catch(kind, e) ==
    IF kind = "save"
    THEN [Pending EXCEPT
            !.status = "returned",
            !.success = FALSE,
            !.message = Wrap("Failed to save: ",
                             MsgOr(e.message, "Unknown error"))]
    ELSE [Pending EXCEPT
            !.status = "thrown",
            !.message = Wrap(IF kind = "list" THEN "Failed to list files: "
                             ELSE "Failed to load file: ",
                             MsgOr(e.message, "Unknown error"))]

(* -------------------- what one resumption step yields ------------------ *)
\* suspended at the next await, with the remote call it has just sent
Go(newpc, step, bearer) ==
    [pc |-> newpc, out |-> Pending, failed |-> "none", begun |-> <<step>>,
     req |-> {[step |-> step, bearer |-> bearer]}]

\* a step threw: the top-level catch ends the invocation
Fail(kind, step, begun, e) ==
    [pc |-> "done", out |-> Catch(kind, e), failed |-> step, begun |-> begun,
     req |-> {}]

\* the invocation returned normally
Return(out) ==
    [pc |-> "done", out |-> out, failed |-> "none", begun |-> <<>>, req |-> {}]

\* r with the steps begun earlier in the same resumption put in front
Begun(pre, r) == [r EXCEPT !.begun = pre \o @]

\* authenticateGoogleUser() is called: up to requestAccessToken()
AuthStartReusesToken(kind, throws) ==
    IF kind = "list" /\ accessToken # NoToken
    THEN Go("search", "search", NoToken)
    ELSE IF ~gisLoaded
    THEN Fail(kind, "auth", <<"auth">>,
              Err(<<"Google Identity Services not loaded. Please refresh the page.">>))
    ELSE IF throws
    THEN Fail(kind, "auth", <<"auth">>,
              Err(Wrap("Authentication failed: ",
                       MsgOr(<<"Missing required parameter client_id.">>,
                             "Unknown error"))))
    ELSE Go("auth", "auth", NoToken)

AuthStart(kind, throws) ==
    IF ~gisLoaded
    THEN Fail(kind, "auth", <<"auth">>,
              Err(<<"Google Identity Services not loaded. Please refresh the page.">>))
    ELSE IF throws
    THEN Fail(kind, "auth", <<"auth">>,
              Err(Wrap("Authentication failed: ",
                       MsgOr(<<"Missing required parameter client_id.">>,
                             "Unknown error"))))
    ELSE Go("auth", "auth", NoToken)

\* loadGoogleDriveAPI() is called: the check of gapi.client.drive, then
\* either the resolved promise (and the authentication that follows it) or
\* gapi.load
LibraryStart(kind, throws) ==
    IF driveReady
    THEN Begun(<<"library">>, AuthStart(kind, throws))
    ELSE IF ~gapiLoaded
    THEN Fail(kind, "library", <<"library">>,
              Err(<<"Cannot read properties of undefined (reading 'load')">>))
    ELSE Go("gapiLoad", "library", NoToken)

\* the catch block of getOrCreateFolder
FolderErrorUnwrapped(e) == Err(MsgOrSelf(e))

FolderError(e) == Err(Wrap("Folder operation failed: ", MsgOrSelf(e)))

\* the catch block of uploadToGoogleDrive
UploadError(m) == Err(Wrap("Upload failed: ", m))

\* response.result.files: the non-trashed folders of the well-known name
SearchResult == {f.id : f \in LiveFolders}

\* getOrCreateFolder after the search answered: return the folder found, or
\* go on to create one
AfterSearchAlwaysCreates(found) == "create"

AfterSearch(found) == IF found # {} THEN "resolved" ELSE "create"

\* the Authorization header of the upload request
UploadBearerOwnToken(p) == loc[p].token

UploadBearer(p) == accessToken

\* the Authorization header of the download request
DownloadBearer(p) == accessToken

\* the guard of loadFromGoogleCloud
LoadGuardMissing == FALSE

LoadGuard == accessToken = NoToken

\* the slot after an authentication that yielded a token: save() and list()
\* both assign it
SlotAfterTokenSaveOnly(kind, tok) == IF kind = "save" THEN tok ELSE accessToken

SlotAfterToken(kind, tok) == tok

\* the slot after an authentication that yielded no token: the throw comes
\* before the assignment
SlotAfterEmptyTokenAssigned == NoToken

SlotAfterEmptyToken == accessToken

\* what follows the resolution of the folder id: the upload (save) or the
\* listing request (list)
AfterFolder(kind, p) ==
    IF kind = "save"
    THEN IF accessToken = NoToken
         THEN Fail(kind, "upload", <<"upload">>,
                   UploadError(<<"No access token available">>))
         ELSE Go("upload", "upload", UploadBearer(p))
    ELSE Go("listing", "listing", NoToken)

\* the remote store after an invocation has ended in failure: nothing is
\* undone
FoldersAfterFailureRolledBack(p) == {f \in folders : f.id # hist[p].created}

FoldersAfterFailure(p) == folders

(* -------------------- applying a resumption step ----------------------- *)
Apply(p, r) ==
    /\ pc' = [pc EXCEPT ![p] = r.pc]
    /\ outcome' = [outcome EXCEPT ![p] = r.out]
    /\ inflight' = {q \in inflight : q.proc # p}
                   \cup {[proc |-> p, step |-> x.step, bearer |-> x.bearer] :
                            x \in r.req}

HistStep(h, r) == [h EXCEPT !.steps = @ \o r.begun, !.failed = r.failed]

(* ------------------------------ actions -------------------------------- *)
\* saveToGoogleCloud(elements, files) up to its first await
SaveCall(p, now) ==
    /\ CanCall(p)
    /\ \E throws \in BOOLEAN :
         LET r == IF ~gapiLoaded
                  THEN Fail("save", "libraryMissing", <<>>,
                            Err(<<"Google API not loaded. Please refresh the page.">>))
                  ELSE LibraryStart("save", throws)
         IN  /\ Apply(p, r)
             /\ hist' = [hist EXCEPT ![p] = HistStep(CallHist, r)]
    /\ op' = [op EXCEPT ![p] = "save"]
    /\ loc' = [loc EXCEPT ![p] = [NoLocals EXCEPT
                                    !.fileName = FileNameAt(now),
                                    !.body = Stringify(Envelope(scene))]]
    /\ clock' = now
    /\ UNCHANGED <<env, driveReady, accessToken, nextToken, store, initLog,
                   lastObtained>>

\* listFilesFromGoogleCloud() up to its first await
ListCall(p) ==
    /\ CanCall(p)
    /\ \E throws \in BOOLEAN :
         LET r == LibraryStart("list", throws)
         IN  /\ Apply(p, r)
             /\ hist' = [hist EXCEPT ![p] = HistStep(CallHist, r)]
    /\ op' = [op EXCEPT ![p] = "list"]
    /\ UNCHANGED <<env, driveReady, accessToken, clock, nextToken, store, loc,
                   initLog, lastObtained>>

\* loadFromGoogleCloud(fileId) up to its first await
LoadCall(p, fid) ==
    /\ CanCall(p)
    /\ LET r == IF LoadGuard
                THEN Fail("load", "notAuthenticated", <<>>,
                          Err(<<"Not authenticated. Please try again.">>))
                ELSE Go("download", "download", DownloadBearer(p))
       IN  /\ Apply(p, r)
           /\ hist' = [hist EXCEPT ![p] = HistStep(CallHist, r)]
    /\ op' = [op EXCEPT ![p] = "load"]
    /\ loc' = [loc EXCEPT ![p] = [NoLocals EXCEPT !.fileId = fid]]
    /\ UNCHANGED <<env, driveReady, accessToken, clock, nextToken, store,
                   initLog, lastObtained>>

\* the callback of gapi.load("client", ...) runs and calls gapi.client.init
GapiLoaded(p) ==
    /\ pc[p] = "gapiLoad"
    /\ Apply(p, [Go("init", "init", NoToken) EXCEPT !.begun = <<>>])
    /\ initLog' = [initLog EXCEPT
                     !.calls = @ + 1,
                     !.whileReady = @ + (IF driveReady THEN 1 ELSE 0)]
    /\ UNCHANGED <<env, driveReady, accessToken, clock, nextToken, store, op,
                   loc, hist, lastObtained>>

\* gapi.client.init resolves: the drive client exists, the promise of
\* loadGoogleDriveAPI resolves and the authentication starts
InitOk(p) ==
    /\ pc[p] = "init"
    /\ driveReady' = TRUE
    /\ initLog' = [initLog EXCEPT !.succeeded = @ + 1]
    /\ \E throws \in BOOLEAN :
         LET r == AuthStart(op[p], throws)
         IN  /\ Apply(p, r)
             /\ hist' = [hist EXCEPT ![p] = HistStep(@, r)]
    /\ UNCHANGED <<env, accessToken, clock, nextToken, store, op, loc,
                   lastObtained>>

\* gapi.client.init rejects
InitFail(p, e) ==
    /\ pc[p] = "init"
    /\ LET r == Fail(op[p], "init", <<>>, InitError(e))
       IN  /\ Apply(p, r)
           /\ hist' = [hist EXCEPT ![p] = HistStep(@, r)]
    /\ UNCHANGED <<env, driveReady, accessToken, clock, nextToken, store, op,
                   loc, initLog, lastObtained>>

\* the token client's callback is called with an access token: the token
\* is stored in the shared slot and the folder search is sent
AuthOk(p) ==
    /\ pc[p] = "auth"
    /\ accessToken' = SlotAfterToken(op[p], nextToken)
    /\ lastObtained' = nextToken
    /\ nextToken' = nextToken + 1
    /\ loc' = [loc EXCEPT ![p].token = nextToken]
    /\ LET r == Go("search", "search", NoToken)
       IN  /\ Apply(p, r)
           /\ hist' = [q \in Procs |->
                         IF q = p THEN HistStep(hist[q], r)
                         ELSE IF op[q] = "save" /\ pc[q] \in {"search", "create"}
                         THEN [hist[q] EXCEPT !.overwritten = TRUE]
                         ELSE hist[q]]
    /\ UNCHANGED <<env, driveReady, clock, store, op, initLog>>

\* the callback is called with neither an error nor an access token: the
\* invocation throws before it assigns the slot
AuthEmpty(p) ==
    /\ pc[p] = "auth"
    /\ LET r == Fail(op[p], "auth", <<>>,
                     Err(<<"Google authentication failed or was cancelled.">>))
       IN  /\ Apply(p, r)
           /\ hist' = [hist EXCEPT ![p] = HistStep(@, r)]
    /\ accessToken' = SlotAfterEmptyToken
    /\ UNCHANGED <<env, driveReady, clock, nextToken, store, op, loc, initLog,
                   lastObtained>>

\* the callback is called with an error
AuthError(p, e) ==
    /\ pc[p] = "auth"
    /\ LET r == Fail(op[p], "auth", <<>>,
                     Err(Wrap("Authentication failed: ",
                              IF e.error_description # ""
                              THEN <<e.error_description>> ELSE <<e.error>>)))
       IN  /\ Apply(p, r)
           /\ hist' = [hist EXCEPT ![p] = HistStep(@, r)]
    /\ UNCHANGED <<env, driveReady, accessToken, clock, nextToken, store, op,
                   loc, initLog, lastObtained>>

\* the user closes the consent window: the callback is never called
AuthDismissed(p) ==
    /\ pc[p] = "auth"
    /\ pc' = [pc EXCEPT ![p] = "authDismissed"]
    /\ inflight' = {q \in inflight : q.proc # p}
    /\ UNCHANGED <<env, driveReady, accessToken, clock, nextToken, store, op,
                   loc, outcome, hist, initLog, lastObtained>>

\* the folder search answers: a folder found is returned, otherwise the
\* folder create is sent; with the folder id the upload / listing is sent
SearchOk(p) ==
    /\ pc[p] = "search"
    /\ LET found == SearchResult
       IN  IF AfterSearch(found) = "resolved"
           THEN \E fid \in found :
                  LET r == AfterFolder(op[p], p)
                  IN  /\ Apply(p, r)
                      /\ hist' = [hist EXCEPT ![p] = HistStep(@, r)]
                      /\ loc' = [loc EXCEPT ![p].found = found,
                                            ![p].folderId = fid]
           ELSE LET r == Go("create", "create", NoToken)
                IN  /\ Apply(p, r)
                    /\ hist' = [hist EXCEPT ![p] = HistStep(@, r)]
                    /\ loc' = [loc EXCEPT ![p].found = found]
    /\ UNCHANGED <<env, driveReady, accessToken, clock, nextToken, store, op,
                   initLog, lastObtained>>

\* the folder search is rejected
SearchFail(p, e) ==
    /\ pc[p] = "search"
    /\ LET r == Fail(op[p], "search", <<>>, FolderError(e))
       IN  /\ Apply(p, r)
           /\ hist' = [hist EXCEPT ![p] = HistStep(@, r)]
    /\ folders' = FoldersAfterFailure(p)
    /\ UNCHANGED <<env, driveReady, accessToken, clock, nextToken, files,
                   nextId, op, loc, initLog, lastObtained>>

\* the folder create answers: the new folder exists; with its id the
\* upload / listing is sent
CreateOk(p) ==
    /\ pc[p] = "create"
    /\ folders' = folders \cup {[id |-> nextId, trashed |-> FALSE]}
    /\ nextId' = nextId + 1
    /\ loc' = [loc EXCEPT ![p].folderId = nextId]
    /\ LET r == AfterFolder(op[p], p)
       IN  /\ Apply(p, r)
           /\ hist' = [hist EXCEPT ![p] = [HistStep(@, r) EXCEPT
                                             !.created = nextId]]
    /\ UNCHANGED <<env, driveReady, accessToken, clock, nextToken, files, op,
                   initLog, lastObtained>>

\* the folder create is rejected
CreateFail(p, e) ==
    /\ pc[p] = "create"
    /\ LET r == Fail(op[p], "create", <<>>, FolderError(e))
       IN  /\ Apply(p, r)
           /\ hist' = [hist EXCEPT ![p] = HistStep(@, r)]
    /\ folders' = FoldersAfterFailure(p)
    /\ UNCHANGED <<env, driveReady, accessToken, clock, nextToken, files,
                   nextId, op, loc, initLog, lastObtained>>

\* the upload answers 2xx: the file exists under its new id and save()
\* returns success with the name of the response
UploadOk(p, now) ==
    /\ pc[p] = "upload"
    /\ clock' = now
    /\ LET file == [id |-> nextId, name |-> loc[p].fileName,
                    parent |-> loc[p].folderId, ctime |-> now,
                    mtime |-> now, trashed |-> FALSE, body |-> loc[p].body]
           r == Return([Pending EXCEPT
                          !.status = "returned",
                          !.success = TRUE,
                          !.message = <<"File saved successfully to Google Cloud!">>,
                          !.fileName = file.name])
       IN  /\ files' = files \cup {file}
           /\ loc' = [loc EXCEPT ![p].uploadId = file.id]
           /\ Apply(p, r)
           /\ hist' = [hist EXCEPT ![p] = HistStep(@, r)]
    /\ nextId' = nextId + 1
    /\ UNCHANGED <<env, driveReady, accessToken, nextToken, folders, op,
                   initLog, lastObtained>>

\* the upload answers non-2xx
UploadRejected(p, h) ==
    /\ pc[p] = "upload"
    /\ LET inner == Err(Wrap("Failed to upload file to Google Drive: ",
                             <<h[1], " ", h[2]>>))
           r == Fail(op[p], "upload", <<>>, UploadError(inner.message))
       IN  /\ Apply(p, r)
           /\ hist' = [hist EXCEPT ![p] = HistStep(@, r)]
    /\ folders' = FoldersAfterFailure(p)
    /\ UNCHANGED <<env, driveReady, accessToken, clock, nextToken, files,
                   nextId, op, loc, initLog, lastObtained>>

\* the upload's fetch rejects
UploadFail(p, e) ==
    /\ pc[p] = "upload"
    /\ LET r == Fail(op[p], "upload", <<>>, UploadError(MsgOrSelf(e)))
       IN  /\ Apply(p, r)
           /\ hist' = [hist EXCEPT ![p] = HistStep(@, r)]
    /\ folders' = FoldersAfterFailure(p)
    /\ UNCHANGED <<env, driveReady, accessToken, clock, nextToken, files,
                   nextId, op, loc, initLog, lastObtained>>

\* min
Min(a, b) == IF a < b THEN a ELSE b

\* the projection fields: "files(id, name, createdTime, modifiedTime)"
Entry(f) ==
    [id |-> f.id, name |-> f.name, createdTime |-> f.ctime,
     modifiedTime |-> f.mtime]

\* the arrangements of the set G in a sequence
Arrangements(G) ==
    {s \in [1..Cardinality(G) -> G] :
        \A i, j \in DOMAIN s : i # j => s[i] # s[j]}

\* the orderings of S by modifiedTime descending: the files of the oldest
\* modifiedTime come last, in any arrangement
RECURSIVE Orderings(_)
Orderings(S) ==
    IF S = {} THEN { <<>> }
    ELSE LET times == {f.mtime : f \in S}
             oldest == CHOOSE t \in times : \A u \in times : t <= u
             last == {f \in S : f.mtime = oldest}
         IN  {s \o t : s \in Orderings(S \ last), t \in Arrangements(last)}

\* the first page of the listing: non-trashed children of the folder,
\* modifiedTime descending, at most PageSize of them
PagesUncapped(fid) ==
    LET children == {f \in files : f.parent = fid /\ ~f.trashed}
    IN  {[i \in 1..Len(s) |-> Entry(s[i])] : s \in Orderings(children)}

Pages(fid) ==
    LET children == {f \in files : f.parent = fid /\ ~f.trashed}
    IN  {[i \in 1..Min(Len(s), PageSize) |-> Entry(s[i])] :
            s \in Orderings(children)}

\* the listing answers: list() returns response.result.files
ListingOk(p) ==
    /\ pc[p] = "listing"
    /\ \E page \in Pages(loc[p].folderId) :
         LET r == Return([Pending EXCEPT
                            !.status = "returned",
                            !.success = TRUE,
                            !.fileList = page])
         IN  /\ Apply(p, r)
             /\ hist' = [hist EXCEPT ![p] = HistStep(@, r)]
    /\ UNCHANGED <<env, driveReady, accessToken, clock, nextToken, store, op,
                   loc, initLog, lastObtained>>

\* the listing is rejected
ListingFail(p, e) ==
    /\ pc[p] = "listing"
    /\ LET r == Fail(op[p], "listing", <<>>, Err(e.message))
       IN  /\ Apply(p, r)
           /\ hist' = [hist EXCEPT ![p] = HistStep(@, r)]
    /\ folders' = FoldersAfterFailure(p)
    /\ UNCHANGED <<env, driveReady, accessToken, clock, nextToken, files,
                   nextId, op, loc, initLog, lastObtained>>

\* the download answers 2xx: load() returns the parsed content
DownloadOk(p) ==
    /\ pc[p] = "download"
    /\ \E f \in files :
         /\ f.id = loc[p].fileId
         /\ LET r == Return([Pending EXCEPT
                               !.status = "returned",
                               !.success = TRUE,
                               !.data = <<ParseJson(f.body)>>])
            IN  /\ Apply(p, r)
                /\ hist' = [hist EXCEPT ![p] = HistStep(@, r)]
    /\ UNCHANGED <<env, driveReady, accessToken, clock, nextToken, store, op,
                   loc, initLog, lastObtained>>

\* the download answers non-2xx
DownloadRejected(p, h) ==
    /\ pc[p] = "download"
    /\ LET r == Fail(op[p], "download", <<>>,
                     Err(Wrap("Failed to download file: ", <<h[2]>>)))
       IN  /\ Apply(p, r)
           /\ hist' = [hist EXCEPT ![p] = HistStep(@, r)]
    /\ UNCHANGED <<env, driveReady, accessToken, clock, nextToken, store, op,
                   loc, initLog, lastObtained>>

\* the download's fetch rejects
DownloadFail(p, e) ==
    /\ pc[p] = "download"
    /\ LET r == Fail(op[p], "download", <<>>, Err(e.message))
       IN  /\ Apply(p, r)
           /\ hist' = [hist EXCEPT ![p] = HistStep(@, r)]
    /\ UNCHANGED <<env, driveReady, accessToken, clock, nextToken, store, op,
                   loc, initLog, lastObtained>>

(* --------------------------- specification ----------------------------- *)
Next ==
    \/ \E p \in Procs, now \in Readings : SaveCall(p, now) /\ UNCHANGED ui
    \/ \E p \in Procs : ListCall(p) /\ UNCHANGED ui
    \/ \E p \in Procs, fid \in LoadInputs : LoadCall(p, fid) /\ UNCHANGED ui
    \/ \E p \in Procs : GapiLoaded(p) /\ UNCHANGED ui
    \/ \E p \in Procs : InitOk(p) /\ UNCHANGED ui
    \/ \E p \in Procs, e \in InitErrors : InitFail(p, e) /\ UNCHANGED ui
    \/ \E p \in Procs : AuthOk(p) /\ UNCHANGED ui
    \/ \E p \in Procs : AuthEmpty(p) /\ UNCHANGED ui
    \/ \E p \in Procs, e \in AuthErrors : AuthError(p, e) /\ UNCHANGED ui
    \/ \E p \in Procs : AuthDismissed(p) /\ UNCHANGED ui
    \/ \E p \in Procs : SearchOk(p) /\ UNCHANGED ui
    \/ \E p \in Procs, e \in RemoteErrors : SearchFail(p, e) /\ UNCHANGED ui
    \/ \E p \in Procs : CreateOk(p) /\ UNCHANGED ui
    \/ \E p \in Procs, e \in RemoteErrors : CreateFail(p, e) /\ UNCHANGED ui
    \/ \E p \in Procs, now \in Readings : UploadOk(p, now) /\ UNCHANGED ui
    \/ \E p \in Procs, h \in UploadHttpErrors :
         UploadRejected(p, h) /\ UNCHANGED ui
    \/ \E p \in Procs, e \in RemoteErrors : UploadFail(p, e) /\ UNCHANGED ui
    \/ \E p \in Procs : ListingOk(p) /\ UNCHANGED ui
    \/ \E p \in Procs, e \in RemoteErrors : ListingFail(p, e) /\ UNCHANGED ui
    \/ \E p \in Procs : DownloadOk(p) /\ UNCHANGED ui
    \/ \E p \in Procs, h \in DownloadHttpErrors :
         DownloadRejected(p, h) /\ UNCHANGED ui
    \/ \E p \in Procs, e \in RemoteErrors : DownloadFail(p, e) /\ UNCHANGED ui

Spec == Init /\ [][Next]_vars

\* the same session started on any of the stores earlier sessions can
\* have left behind
SpecStores == InitStores /\ [][Next]_vars

(* ------------------- the LoadFromCloud component ----------------------- *)
\* setIsLoading(true) at the start of handleListFiles / handleLoadFile
Started(u) == [u EXCEPT !.isLoading = TRUE, !.clicks = @ + 1]

\* handleListFiles after its await: the try block, then finally
ListResolved(u, fileList) ==
    [u EXCEPT !.files = fileList, !.showFileList = TRUE, !.isLoading = FALSE]

\* handleListFiles after its await: the catch block, then finally
ListRejectedWithoutFinally(u, m) ==
    [u EXCEPT !.onError = @ + 1, !.lastError = MsgOr(m, "Failed to list files")]

ListRejected(u, m) ==
    [u EXCEPT !.onError = @ + 1,
              !.lastError = MsgOr(m, "Failed to list files"),
              !.isLoading = FALSE]

\* handleLoadFile after its await: the try block, then finally
LoadResolved(u, data) ==
    [u EXCEPT !.onLoadFile = @ + 1, !.loaded = data, !.isLoading = FALSE]

\* handleLoadFile after its await: the catch block, then finally
LoadRejected(u, m) ==
    [u EXCEPT !.onError = @ + 1,
              !.lastError = MsgOr(m, "Failed to load file"),
              !.isLoading = FALSE]

\* the handler that awaits a call of the given kind resumes on its outcome
Settled(u, kind, out) ==
    IF kind = "list"
    THEN IF out.status = "returned" THEN ListResolved(u, out.fileList)
         ELSE ListRejected(u, out.message)
    ELSE IF out.status = "returned" THEN LoadResolved(u, out.data)
         ELSE LoadRejected(u, out.message)

\* the component after a step of the invocation p of its handler: when the
\* step has ended the invocation, the handler resumes in the same task
Continue(p, u) ==
    ui' = IF pc'[p] = "done" THEN Settled(u, op'[p], outcome'[p]) ELSE u

\* the 'Load from Cloud' button is rendered and not disabled
ButtonEnabled == ~ui.showFileList /\ ~ui.isLoading

\* the file entries are rendered
EntriesShown == ui.showFileList

\* a click on 'Load from Cloud': handleListFiles up to its await
ClickLoadFromCloud(p) ==
    /\ ButtonEnabled
    /\ ui.clicks < MaxClicks
    /\ ListCall(p)
    /\ Continue(p, Started(ui))

\* a click on the i-th file entry: handleLoadFile(file.id) up to its await
ClickFile(p, i) ==
    /\ EntriesShown
    /\ i \in DOMAIN ui.files
    /\ ui.clicks < MaxClicks
    /\ LoadCall(p, ui.files[i].id)
    /\ Continue(p, Started(ui))

\* a click on 'Back'
ClickBack ==
    /\ ui.showFileList
    /\ ui' = [ui EXCEPT !.showFileList = FALSE]
    /\ UNCHANGED cloud

\* the frame of an invocation that has ended is dropped
Release(p) ==
    /\ pc[p] = "done"
    /\ pc' = [pc EXCEPT ![p] = "idle"]
    /\ op' = [op EXCEPT ![p] = "none"]
    /\ loc' = [loc EXCEPT ![p] = NoLocals]
    /\ outcome' = [outcome EXCEPT ![p] = Pending]
    /\ hist' = [hist EXCEPT ![p] = NoHist]
    /\ UNCHANGED <<env, driveReady, accessToken, clock, nextToken, store,
                   inflight, initLog, lastObtained, ui>>

\* the stores the component is run on: an empty one, and one whose folder
\* holds two files
ComponentStores ==
    { [folders |-> {}, files |-> {}, nextId |-> 2],
      [folders |-> {[id |-> 1, trashed |-> FALSE]},
       files |-> {OldFile(1, 1, FALSE), OldFile(2, 1, FALSE)},
       nextId |-> 4] }

InitComponent ==
    /\ PageLoaded
    /\ \E s \in ComponentStores :
         /\ folders = s.folders
         /\ files = s.files
         /\ nextId = s.nextId

\* the page driven through the component alone: clicks, and the steps of
\* the list and load invocations its handlers await
NextComponent ==
    \/ \E p \in Procs : ClickLoadFromCloud(p)
    \/ \E p \in Procs, i \in 1..PageSize : ClickFile(p, i)
    \/ ClickBack
    \/ \E p \in Procs : Release(p)
    \/ \E p \in Procs : GapiLoaded(p) /\ Continue(p, ui)
    \/ \E p \in Procs : InitOk(p) /\ Continue(p, ui)
    \/ \E p \in Procs, e \in InitErrors : InitFail(p, e) /\ Continue(p, ui)
    \/ \E p \in Procs : AuthOk(p) /\ Continue(p, ui)
    \/ \E p \in Procs : AuthEmpty(p) /\ Continue(p, ui)
    \/ \E p \in Procs, e \in AuthErrors : AuthError(p, e) /\ Continue(p, ui)
    \/ \E p \in Procs : AuthDismissed(p) /\ Continue(p, ui)
    \/ \E p \in Procs : SearchOk(p) /\ Continue(p, ui)
    \/ \E p \in Procs, e \in RemoteErrors : SearchFail(p, e) /\ Continue(p, ui)
    \/ \E p \in Procs : CreateOk(p) /\ Continue(p, ui)
    \/ \E p \in Procs, e \in RemoteErrors : CreateFail(p, e) /\ Continue(p, ui)
    \/ \E p \in Procs : ListingOk(p) /\ Continue(p, ui)
    \/ \E p \in Procs, e \in RemoteErrors : ListingFail(p, e) /\ Continue(p, ui)
    \/ \E p \in Procs : DownloadOk(p) /\ Continue(p, ui)
    \/ \E p \in Procs, h \in DownloadHttpErrors :
         DownloadRejected(p, h) /\ Continue(p, ui)
    \/ \E p \in Procs, e \in RemoteErrors : DownloadFail(p, e) /\ Continue(p, ui)

SpecComponent == InitComponent /\ [][NextComponent]_vars

(* ------------------------- observation helpers ------------------------- *)
IsPrefix(s, t) == Len(s) <= Len(t) /\ SubSeq(t, 1, Len(s)) = s

Carries(m, segment) == \E i \in DOMAIN m : m[i] = segment

Ended(p) == pc[p] = "done"

StepsOf(p) == {hist[p].steps[i] : i \in DOMAIN hist[p].steps}

NotAuthenticatedMessage ==
    <<"Failed to load file: ", "Not authenticated. Please try again.">>

(* ------------------------------- claims -------------------------------- *)
\* C1 (as stated): a load() called when no save() or list() has completed
\* successfully earlier in the session fails with NotAuthenticated and sends
\* no download request.
C1_LoadNeedsPriorSuccess ==
    \A p \in Procs :
        (op[p] = "load" /\ ~hist[p].okAtCall) =>
            /\ Ended(p)
            /\ outcome[p].status = "thrown"
            /\ outcome[p].message = NotAuthenticatedMessage
            /\ "download" \notin StepsOf(p)

\* C1 (amended): a load() called when no save() or list() has obtained a
\* token from its authentication earlier in the session fails with
\* NotAuthenticated and sends no download request; once some save() or list()
\* has obtained a token, also one that failed at a later step, load() sends
\* its download request.
C1_LoadNeedsPriorAuthentication ==
    \A p \in Procs :
        op[p] = "load" =>
            IF hist[p].authAtCall
            THEN hist[p].steps = <<"download">> /\ hist[p].failed # "notAuthenticated"
            ELSE /\ Ended(p)
                 /\ outcome[p].status = "thrown"
                 /\ outcome[p].message = NotAuthenticatedMessage
                 /\ hist[p].steps = <<>>

\* a save() that failed before it authenticated, then a load() that was refused
C1_Witness ==
    \E p, q \in Procs :
        /\ op[q] \in {"save", "list"} /\ Ended(q) /\ hist[q].failed = "auth"
        /\ op[p] = "load" /\ ~hist[p].authAtCall /\ Ended(p)
        /\ outcome[p].message = NotAuthenticatedMessage

\* the sequences of steps one invocation can go through
StepOrders(kind) ==
    CASE kind = "save" ->
           { <<"library", "auth", "search", "upload">>,
             <<"library", "auth", "search", "create", "upload">> }
      [] kind = "list" ->
           { <<"library", "auth", "search", "listing">>,
             <<"library", "auth", "search", "create", "listing">> }
      [] kind = "load" -> { <<"download">> }
      [] OTHER -> { <<>> }

\* the step a failure belongs to
StepOfFailure(failed) ==
    CASE failed = "init" -> "library"
      [] OTHER -> failed

\* C2: save() always completes with a result value: success = false and a
\* non-empty message whichever step failed, success = true and the stored
\* file's name only when every step succeeded; list() and load() end in a
\* thrown failure when one of their steps fails.
C2_SaveReturnsListLoadThrow ==
    \A p \in Procs :
        Ended(p) =>
            /\ op[p] = "save" =>
                 /\ outcome[p].status = "returned"
                 /\ outcome[p].success <=> hist[p].failed = "none"
                 /\ outcome[p].success =>
                      /\ hist[p].steps \in StepOrders("save")
                      /\ \E f \in files : /\ f.id = loc[p].uploadId
                                          /\ f.name = outcome[p].fileName
                 /\ ~outcome[p].success =>
                      /\ Len(outcome[p].message) >= 2
                      /\ \A i \in DOMAIN outcome[p].message :
                           outcome[p].message[i] # ""
                      /\ outcome[p].fileName = <<>>
            /\ op[p] \in {"list", "load"} =>
                 /\ hist[p].failed # "none" <=> outcome[p].status = "thrown"
                 /\ hist[p].failed = "none" <=> outcome[p].status = "returned"

\* a save() that failed at its upload and returned, beside a list() that threw
C2_Witness ==
    \E p, q \in Procs :
        /\ op[p] = "save" /\ Ended(p) /\ hist[p].failed = "upload"
        /\ outcome[p].status = "returned" /\ ~outcome[p].success
        /\ op[q] = "list" /\ Ended(q) /\ outcome[q].status = "thrown"

\* C3 (as stated): when the folder create fails during a save(), the save()
\* ends in FolderOperationFailed and the set of remote files is exactly what
\* it was before that save() started.
C3_FilesAsBeforeTheSave ==
    \A p \in Procs :
        (op[p] = "save" /\ hist[p].failed = "create") =>
            /\ Ended(p)
            /\ Carries(outcome[p].message, "Folder operation failed: ")
            /\ FileIds = hist[p].filesAtCall

\* C3 (amended): when the folder create fails during a save(), the save()
\* ends in FolderOperationFailed, its upload step is never executed and it
\* adds no remote file: every file that was not there when it started was
\* uploaded by another invocation.
C3_CreateFailureUploadsNothing ==
    \A p \in Procs :
        (op[p] = "save" /\ hist[p].failed = "create") =>
            /\ Ended(p)
            /\ outcome[p].status = "returned" /\ ~outcome[p].success
            /\ IsPrefix(<<"Failed to save: ", "Folder operation failed: ">>,
                        outcome[p].message)
            /\ hist[p].steps = <<"library", "auth", "search", "create">>
            /\ loc[p].uploadId = NoId
            /\ \A f \in files :
                 \/ f.id \in hist[p].filesAtCall
                 \/ \E q \in Procs \ {p} : loc[q].uploadId = f.id

\* a save() whose folder create failed while another save() uploaded a file
C3_Witness ==
    \E p, q \in Procs :
        /\ op[p] = "save" /\ hist[p].failed = "create" /\ Ended(p)
        /\ q # p /\ loc[q].uploadId # NoId
        /\ loc[q].uploadId \notin hist[p].filesAtCall

\* C4: a failing step aborts the invocation without rollback: no later step
\* is executed, and a folder the invocation created still exists after it
\* has ended in failure.
C4_AbortWithoutRollback ==
    \A p \in Procs :
        hist[p].failed # "none" =>
            /\ Ended(p)
            /\ ~\E r \in inflight : r.proc = p
            /\ hist[p].steps # <<>> =>
                 hist[p].steps[Len(hist[p].steps)] = StepOfFailure(hist[p].failed)
            /\ hist[p].steps = <<>> =>
                 hist[p].failed \in {"libraryMissing", "notAuthenticated"}
            /\ hist[p].created # NoId =>
                 [id |-> hist[p].created, trashed |-> FALSE] \in folders

\* a save() that created the folder and then failed at its upload
C4_Witness ==
    \E p \in Procs :
        /\ op[p] = "save" /\ Ended(p) /\ hist[p].failed = "upload"
        /\ hist[p].created # NoId
        /\ [id |-> hist[p].created, trashed |-> FALSE] \in folders
        /\ ~outcome[p].success

\* C5: the steps of one invocation happen in the order library load,
\* authentication, folder search, folder create (only when the search found
\* no folder), then upload (save) or listing (list); an invocation has at most
\* one remote call in flight, the one of the step it began last.
C5_StepsInOrder ==
    \A p \in Procs :
        /\ \E o \in StepOrders(op[p]) : IsPrefix(hist[p].steps, o)
        /\ "create" \in StepsOf(p) => loc[p].found = {}
        /\ (StepsOf(p) \cap {"upload", "listing"} # {}
              /\ "create" \notin StepsOf(p)) => loc[p].folderId \in loc[p].found
        /\ Cardinality({r \in inflight : r.proc = p}) <= 1
        /\ \A r \in inflight :
             r.proc = p =>
                /\ ~Ended(p)
                /\ hist[p].steps # <<>>
                /\ hist[p].steps[Len(hist[p].steps)] = StepOfFailure(r.step)

\* two invocations in flight at once, one past its folder create, the other
\* past a search that found the folder
C5_Witness ==
    \E p, q \in Procs :
        /\ op[p] = "save" /\ pc[p] = "upload"
        /\ hist[p].steps = <<"library", "auth", "search", "create", "upload">>
        /\ op[q] = "list" /\ pc[q] = "listing"
        /\ hist[q].steps = <<"library", "auth", "search", "listing">>

\* C6 (as stated): the client library is initialized exactly once per
\* process: gapi.client.init succeeds at most once, and at most one init call
\* is performed once the library is initialized.
C6_InitializedExactlyOnce ==
    /\ initLog.succeeded <= 1
    /\ initLog.whileReady <= 1

\* the requests sent by the step just taken
Sent == inflight' \ inflight

\* C7: every upload and every download request carries, at the moment it is
\* sent, the token the latest authentication of the process obtained, which
\* is the content of the shared slot.
C7_RequestsCarryLatestToken ==
    [][ /\ accessToken' = lastObtained'
        /\ \A r \in Sent :
             r.step \in {"upload", "download"} =>
                /\ r.bearer # NoToken
                /\ r.bearer = accessToken'
                /\ r.bearer = lastObtained' ]_vars

\* an upload and a download in flight, both carrying the token of the slot
C7_Witness ==
    \E r, t \in inflight :
        /\ r.step = "upload" /\ t.step = "download"
        /\ r.bearer = accessToken /\ t.bearer = accessToken
        /\ accessToken # NoToken /\ accessToken = lastObtained

\* C8: the token slot is unguarded: the upload of a save() carries a token
\* other than the one that save() obtained exactly when another invocation
\* authenticated between that save()'s authentication and its upload.
C8_UploadCarriesOverwrittenToken ==
    \A r \in inflight :
        r.step = "upload" =>
            /\ (r.bearer # loc[r.proc].token) <=> hist[r.proc].overwritten
            /\ r.bearer # loc[r.proc].token =>
                 \E q \in Procs \ {r.proc} :
                    /\ op[q] \in {"save", "list"}
                    /\ loc[q].token = r.bearer
                    /\ loc[q].token > loc[r.proc].token

\* save() A has its upload in flight with the token of a later
\* authentication B
C8_Witness ==
    \E r \in inflight :
        /\ r.step = "upload" /\ op[r.proc] = "save"
        /\ loc[r.proc].token # NoToken
        /\ r.bearer # loc[r.proc].token
        /\ \E q \in Procs \ {r.proc} : loc[q].token = r.bearer

\* the folders created during the session
CreatedFolders == {f \in folders : \E p \in Procs : hist[p].created = f.id}

\* C9: folder lookup-or-create is a check-then-act: an invocation creates a
\* folder exactly on the strength of its own earlier search having found
\* none, whatever the store holds by the time of the create, and every such
\* create adds one more live folder of the same name.
C9_CheckThenAct ==
    /\ \A p \in Procs :
         (pc[p] = "create" \/ hist[p].created # NoId) =>
             /\ loc[p].found = {}
             /\ op[p] \in {"save", "list"}
    /\ \A p \in Procs :
         hist[p].created # NoId =>
             /\ [id |-> hist[p].created, trashed |-> FALSE] \in folders
             /\ loc[p].folderId = hist[p].created
             /\ \A q \in Procs \ {p} : hist[q].created # hist[p].created
    /\ Cardinality(CreatedFolders)
         = Cardinality({p \in Procs : hist[p].created # NoId})

\* two live folders, both created in the session, in a store that had no
\* live folder
C9_Witness ==
    /\ Cardinality(LiveFolders) = 2
    /\ LiveFolders = CreatedFolders
    /\ \E p, q \in Procs :
         /\ p # q
         /\ hist[p].created # NoId /\ hist[q].created # NoId

\* C10 (as stated): any two successful save() calls store files under two
\* distinct names, and the stored files are distinct files.
C10_DistinctNames ==
    \A p, q \in Procs :
        (/\ p # q
         /\ op[p] = "save" /\ Ended(p) /\ outcome[p].success
         /\ op[q] = "save" /\ Ended(q) /\ outcome[q].success) =>
            /\ loc[p].uploadId # loc[q].uploadId
            /\ outcome[p].fileName # outcome[q].fileName

\* the names of the entries a list() returned
ListedNames(q) ==
    {outcome[q].fileList[i].name : i \in DOMAIN outcome[q].fileList}

\* the list() q was called after the save() p had returned success
SaveThenList(p, q) ==
    /\ op[p] = "save" /\ Ended(p) /\ outcome[p].success
    /\ op[q] = "list" /\ Ended(q) /\ outcome[q].status = "returned"
    /\ loc[p].uploadId \in hist[q].filesAtCall

\* C11 (as stated): whatever the store holds, several folders of the
\* well-known name included, a successful list() called after a successful
\* save() resolves the folder that save() uploaded into and returns an entry
\* with the name that save() generated.
C11_SavedFileIsListed ==
    \A p, q \in Procs :
        SaveThenList(p, q) =>
            /\ loc[q].folderId = loc[p].folderId
            /\ outcome[p].fileName \in ListedNames(q)

\* C12: round trip: a load() of the file a successful save() stored returns
\* the envelope that save() serialized, unchanged: type "excalidraw", version
\* 2, the source url, the document's elements, the display settings and the
\* document's attachments.
C12_RoundTrip ==
    \A p \in Procs :
        (op[p] = "load" /\ Ended(p) /\ outcome[p].status = "returned") =>
            \E q \in Procs :
                /\ op[q] = "save" /\ outcome[q].success
                /\ loc[q].uploadId = loc[p].fileId
                /\ outcome[p].data = <<Envelope(scene)>>
                /\ outcome[p].data[1].type = "excalidraw"
                /\ outcome[p].data[1].version = 2
                /\ outcome[p].data[1].source = "https://excalidraw.com"
                /\ outcome[p].data[1].elements = scene.elements
                /\ outcome[p].data[1].appState
                     = [viewBackgroundColor |-> "#ffffff"]
                /\ outcome[p].data[1].files = scene.files

\* a load() has returned a document of two elements and two attachments
\* that a save() stored
C12_Witness ==
    \E p, q \in Procs :
        /\ op[q] = "save" /\ outcome[q].success
        /\ op[p] = "load" /\ Ended(p) /\ outcome[p].status = "returned"
        /\ loc[p].fileId = loc[q].uploadId
        /\ Len(outcome[p].data[1].elements) = 2
        /\ Len(outcome[p].data[1].files) = 2

\* the non-trashed direct children of a folder
LiveChildren(fid) == {f \in files : f.parent = fid /\ ~f.trashed}

\* the list() q returns successfully in the step taken
ListReturns(q) ==
    /\ op[q] = "list" /\ pc[q] = "listing"
    /\ pc'[q] = "done" /\ outcome'[q].status = "returned"

\* C13: a successful list() returns at most PageSize (100) entries, each the
\* entry of a different non-trashed direct child of the folder it resolved,
\* in descending order of modifiedTime; no child left out is newer than an
\* entry returned, and children are left out only when the page is full.
C13_NewestPage ==
    [][ \A q \in Procs :
          ListReturns(q) =>
            LET page == outcome'[q].fileList
                children == LiveChildren(loc[q].folderId)
                returned == {f \in children :
                               \E i \in DOMAIN page : page[i] = Entry(f)}
            IN  /\ Len(page) <= PageSize
                /\ Len(page) = Min(Cardinality(children), PageSize)
                /\ Cardinality(returned) = Len(page)
                /\ \A i \in DOMAIN page :
                     \E f \in children : page[i] = Entry(f)
                /\ \A i, j \in DOMAIN page :
                     i < j => page[i].modifiedTime >= page[j].modifiedTime
                /\ \A f \in children \ returned :
                     \A i \in DOMAIN page : page[i].modifiedTime >= f.mtime
      ]_vars

\* a list() has returned a full page that starts with a file saved in this
\* session and leaves older children of the folder out
C13_Witness ==
    \E q, p \in Procs :
        /\ op[q] = "list" /\ Ended(q) /\ outcome[q].status = "returned"
        /\ Len(outcome[q].fileList) = PageSize
        /\ op[p] = "save" /\ outcome[p].success
        /\ outcome[q].fileList[1].id = loc[p].uploadId
        /\ Cardinality(LiveChildren(loc[q].folderId)) > PageSize
        /\ \E f \in files : f.trashed /\ f.parent = loc[q].folderId

\* C14: every list() authenticates anew, also when the slot holds a token:
\* its folder search is sent only by the step in which its own
\* authentication has answered with a token no earlier authentication
\* yielded, and in that step the slot is overwritten with that token.
C14_ListAuthenticatesAnew ==
    [][ \A r \in Sent :
          (r.step = "search" /\ op[r.proc] = "list") =>
            /\ pc[r.proc] = "auth"
            /\ hist'[r.proc].steps = <<"library", "auth", "search">>
            /\ loc'[r.proc].token # NoToken
            /\ loc'[r.proc].token > lastObtained
            /\ \A q \in Procs \ {r.proc} : loc[q].token # loc'[r.proc].token
            /\ accessToken' = loc'[r.proc].token
            /\ accessToken' # accessToken
      ]_vars

\* a list() called while the slot held a token has its folder search in
\* flight, the slot holding the token this list() obtained
C14_Witness ==
    \E q, p \in Procs :
        /\ op[q] = "list" /\ hist[q].authAtCall /\ pc[q] = "search"
        /\ p # q /\ loc[p].token # NoToken
        /\ loc[q].token > loc[p].token
        /\ accessToken = loc[q].token

\* the steps that resume the invocation p: a callback of the remote side
\* is called or a promise it awaits settles
Resumes(p) ==
    \/ GapiLoaded(p)
    \/ InitOk(p)
    \/ \E e \in InitErrors : InitFail(p, e)
    \/ AuthOk(p)
    \/ AuthEmpty(p)
    \/ \E e \in AuthErrors : AuthError(p, e)
    \/ SearchOk(p)
    \/ \E e \in RemoteErrors : SearchFail(p, e)
    \/ CreateOk(p)
    \/ \E e \in RemoteErrors : CreateFail(p, e)
    \/ \E now \in Readings : UploadOk(p, now)
    \/ \E h \in UploadHttpErrors : UploadRejected(p, h)
    \/ \E e \in RemoteErrors : UploadFail(p, e)
    \/ ListingOk(p)
    \/ \E e \in RemoteErrors : ListingFail(p, e)
    \/ DownloadOk(p)
    \/ \E h \in DownloadHttpErrors : DownloadRejected(p, h)
    \/ \E e \in RemoteErrors : DownloadFail(p, e)

\* C15 (as stated): no step leaves a started save(), list() or load() pending
\* forever: an invocation that has started and has not finished with a
\* success or a failure outcome is waiting for something that can still
\* resume it, also after the user has dismissed the consent prompt.
C15_NoStepPendsForever ==
    \A p \in Procs :
        (op[p] # "none" /\ outcome[p].status = "pending") => ENABLED Resumes(p)

\* C17: frame of the token slot: a step changes the slot only when it is the
\* step in which the authentication of a save() or list() answers with a
\* non-empty token, and then the slot holds that token; every other step,
\* a failed or empty-token authentication included, leaves the slot as it
\* is, and a slot that holds a token never becomes empty again.
C17_TokenSlotFrame ==
    [][ /\ accessToken' # accessToken =>
             \E p \in Procs :
                /\ op[p] \in {"save", "list"}
                /\ pc[p] = "auth" /\ pc'[p] = "search"
                /\ accessToken' = nextToken
                /\ accessToken' # NoToken
                /\ loc'[p].token = accessToken'
        /\ accessToken # NoToken => accessToken' # NoToken
        /\ \A p \in Procs :
             (pc'[p] = "done" /\ pc[p] # "done" /\ hist'[p].failed # "none") =>
                accessToken' = accessToken
        /\ \A p \in Procs :
             (op'[p] = "load" \/ pc[p] \notin {"idle", "auth"}) =>
                (pc'[p] # pc[p] => accessToken' = accessToken)
      ]_vars

\* the slot holds the token of one invocation after the authentication of
\* a later invocation has failed
C17_Witness ==
    \E p, q \in Procs :
        /\ loc[p].token # NoToken /\ accessToken = loc[p].token
        /\ op[q] \in {"save", "list"} /\ hist[q].authAtCall
        /\ Ended(q) /\ hist[q].failed = "auth"
        /\ "auth" \in StepsOf(q)

\* no save() or list() is under way: each one called has finished
NoneUnderWay ==
    \A p \in Procs : op[p] \in {"save", "list"} => Ended(p)

\* sequential use: a save() or list() is called only when the previous one
\* has finished
NextSeq ==
    \/ /\ NoneUnderWay
       /\ \E p \in Procs, now \in Readings : SaveCall(p, now)
       /\ UNCHANGED ui
    \/ /\ NoneUnderWay
       /\ \E p \in Procs : ListCall(p)
       /\ UNCHANGED ui
    \/ \E p \in Procs, fid \in LoadInputs : LoadCall(p, fid) /\ UNCHANGED ui
    \/ \E p \in Procs : Resumes(p) /\ UNCHANGED ui
    \/ \E p \in Procs : AuthDismissed(p) /\ UNCHANGED ui

SpecSeq == Init /\ [][NextSeq]_vars

\* C18: in sequential use, on a store with at most one live folder of the
\* well-known name, the session creates at most one folder, the store never
\* holds two live folders of the name, and all successful save() and list()
\* calls resolve the same folder id.
C18_SequentialUseOneFolder ==
    /\ Cardinality({p \in Procs : hist[p].created # NoId}) <= 1
    /\ Cardinality(CreatedFolders) <= 1
    /\ Cardinality(LiveFolders) <= 1
    /\ \A p, q \in Procs :
         (/\ op[p] \in {"save", "list"} /\ Ended(p) /\ outcome[p].success
          /\ op[q] \in {"save", "list"} /\ Ended(q) /\ outcome[q].success) =>
            /\ loc[p].folderId = loc[q].folderId
            /\ loc[p].folderId \in {f.id : f \in LiveFolders}

\* a save() created the folder and succeeded, then a list() found that
\* folder and succeeded
C18_Witness ==
    \E p, q \in Procs :
        /\ op[p] = "save" /\ Ended(p) /\ outcome[p].success
        /\ hist[p].created # NoId
        /\ op[q] = "list" /\ Ended(q) /\ outcome[q].success
        /\ hist[q].created = NoId
        /\ loc[q].folderId = hist[p].created

\* the invocation p ends in the step taken
Ends(p) == pc[p] # "done" /\ pc'[p] = "done"

\* C16: in the component, the step that ends a list or load attempt, by
\* success or by failure, leaves the loading flag false; a failed list calls
\* onError once, leaves the file list view and the stored entries as they
\* are and does not call onLoadFile; a failed load calls onError once and does
\* not call onLoadFile; a successful attempt does not call onError.
C16_FailureLeavesUiUsable ==
    [][ \A p \in Procs :
          Ends(p) =>
            /\ ~ui'.isLoading
            /\ ui'.clicks \in {ui.clicks, ui.clicks + 1}
            /\ outcome'[p].status = "thrown" =>
                 /\ ui'.onError = ui.onError + 1
                 /\ ui'.lastError = outcome'[p].message
                 /\ ui'.onLoadFile = ui.onLoadFile
                 /\ ui'.loaded = ui.loaded
                 /\ ui'.showFileList = ui.showFileList
                 /\ ui'.files = ui.files
            /\ outcome'[p].status = "returned" =>
                 /\ ui'.onError = ui.onError
                 /\ op'[p] = "list" =>
                      /\ ui'.files = outcome'[p].fileList
                      /\ ui'.showFileList
                      /\ ui'.onLoadFile = ui.onLoadFile
                 /\ op'[p] = "load" =>
                      /\ ui'.onLoadFile = ui.onLoadFile + 1
                      /\ ui'.loaded = outcome'[p].data
                      /\ ui'.files = ui.files
      ]_vars

\* after three clicks, a list that failed, a list that succeeded and a load
\* that failed: onError called twice, onLoadFile never, the entries still
\* shown and the loading flag false
C16_Witness ==
    \E p \in Procs :
        /\ op[p] = "load" /\ Ended(p) /\ outcome[p].status = "thrown"
        /\ ui.clicks = 3 /\ ui.onError = 2 /\ ui.onLoadFile = 0
        /\ ui.lastError = outcome[p].message
        /\ ui.showFileList /\ Len(ui.files) = 2
        /\ ~ui.isLoading

\* C19: driven through the component alone, load is never called
\* unauthenticated: the file list is shown and entries are stored only when
\* the slot holds a token, every load() was called after an authentication
\* had yielded a token and sent its download request, and no NotAuthenticated
\* failure is reported.
C19_LoadAlwaysAuthenticated ==
    /\ (ui.showFileList \/ ui.files # <<>>) => accessToken # NoToken
    /\ \A p \in Procs :
         op[p] = "load" =>
            /\ hist[p].authAtCall
            /\ hist[p].failed # "notAuthenticated"
            /\ hist[p].steps = <<"download">>
            /\ outcome[p].message # NotAuthenticatedMessage
    /\ \A r \in inflight : r.step = "download" => r.bearer # NoToken
    /\ ui.lastError # NotAuthenticatedMessage

\* a click on a file entry has sent a download request that carries the
\* token of the slot
C19_Witness ==
    \E r \in inflight :
        /\ r.step = "download" /\ op[r.proc] = "load"
        /\ r.bearer = accessToken /\ accessToken # NoToken
        /\ ui.showFileList /\ ui.isLoading
        /\ loc[r.proc].fileId \in {ui.files[i].id : i \in DOMAIN ui.files}

\* the invocations of the given kinds that have been called and have not
\* ended
PendingCalls(kinds) ==
    {p \in Procs : op[p] \in kinds /\ pc[p] \notin {"idle", "done"}}

\* C20 (as stated): the loading flag serializes the requests of the
\* component: at no time are two list calls pending, and the 'Load from
\* Cloud' button is not enabled while a list or load call is pending.
C20_LoadingFlagSerializes ==
    /\ Cardinality(PendingCalls({"list"})) <= 1
    /\ PendingCalls({"list", "load"}) # {} => ~ButtonEnabled

\* C20, its first part alone: at no time are two list calls pending
C20_OneListAtATime == Cardinality(PendingCalls({"list"})) <= 1

====
